---- MODULE Spec2Model ----
(***************************************************************************)
(* State machine of the FileUpload component                               *)
(* (label-data-organizer-frontend/src/components/FileUpload.jsx).          *)
(*                                                                         *)
(* The React state cells are the variables.  Every event handler runs to   *)
(* completion on the single JavaScript thread, and the setters it calls    *)
(* are batched, so one synchronous run of a handler is one action.  The    *)
(* async handler handleUpload is cut at its two await points (the POST and *)
(* the read of an error body); each segment between awaits is one action.  *)
(* A handler sees the state of the render it was created in; renders       *)
(* follow every state change before the next event, so the closure value   *)
(* of `file` at the call equals the state value.                           *)
(***************************************************************************)
EXTENDS Integers, Sequences, FiniteSets, TLC

(* ---------------------------- bounds ----------------------------------- *)
\* number of handleUpload invocations that can be suspended at an await at
\* the same time; the number of invocations over time is not bounded
MaxInFlight == 2

(* ---------------------------- values ----------------------------------- *)
\* JavaScript null / undefined for the `file` cell and for a missing input
Null == [name |-> "", type |-> "null"]

XlsxType == "application/vnd.openxmlformats-officedocument.spreadsheetml.sheet"
XlsType == "application/vnd.ms-excel"
CsvType == "text/csv"

\* declared media types a selected file can carry
FileTypes == {XlsxType, XlsType, CsvType, "image/png"}
FileNames == {"a"}
Files == [name : FileNames, type : FileTypes]
\* what e.target.files[0] can be: a File, or undefined
Inputs == Files \cup {Null}

MsgInvalidType == "Invalid file type. Please upload an Excel (.xlsx, .xls) or CSV (.csv) file."
MsgSelectFirst == "Please select a file first."
MsgUnexpected == "An unexpected error occurred."
MsgProcessing == "An error occurred during processing."
MsgSuccess == "File processed and download started!"

\* An error object.  hasDetails = FALSE is an object without a `details`
\* property (reading it gives undefined); details is then <<>> by convention.
ErrorObj(m, h, d) == [message |-> m, hasDetails |-> h, details |-> d]

\* useState({ message: "", details: [] })
NoError == ErrorObj("", TRUE, <<>>)

(* ------------------------ Content-Disposition -------------------------- *)
\* Header values are sequences of one-character strings.
Quote == "\""
LineTerminators == {"\n", "\r"}

\* the /i flag: case folding of the letters that occur in the pattern
Lower(c) ==
  CASE c = "F" -> "f" [] c = "I" -> "i" [] c = "L" -> "l" [] c = "E" -> "e"
    [] c = "N" -> "n" [] c = "A" -> "a" [] c = "M" -> "m" [] OTHER -> c

KeyChars == <<"f", "i", "l", "e", "n", "a", "m", "e", "=">>

\* the literal part `filename=` of the pattern matches at position i of s
KeyMatchesAt(s, i) ==
  /\ i >= 1
  /\ i + Len(KeyChars) - 1 <= Len(s)
  /\ \A k \in 1..Len(KeyChars) : Lower(s[i + k - 1]) = KeyChars[k]

\* `.` matches any character except a line terminator
DotMatches(s, j) == j >= 1 /\ j <= Len(s) /\ s[j] \notin LineTerminators

\* last position of the greedy run `.+` started at j (DotMatches(s, j) holds)
RECURSIVE RunEnd(_, _)
RunEnd(s, j) == IF DotMatches(s, j + 1) THEN RunEnd(s, j + 1) ELSE j

\* Attempt of /filename="?(.+)"?/i anchored at position i.
\* Result: [ok, group]: whether it matches there and the text of group 1.
\* `"?` is greedy: it takes a quote when there is one, and gives it back only
\* when `.+` could not match after it.  `.+` runs to the end of the line, and
\* the closing `"?` then matches the empty string, so `.+` never gives back.
MatchAt(s, i) ==
  LET j == i + Len(KeyChars)
      afterQuote == j + 1
  IN  IF ~KeyMatchesAt(s, i) THEN [ok |-> FALSE, group |-> <<>>]
      ELSE IF j <= Len(s) /\ s[j] = Quote /\ DotMatches(s, afterQuote)
        THEN [ok |-> TRUE, group |-> SubSeq(s, afterQuote, RunEnd(s, afterQuote))]
      ELSE IF DotMatches(s, j)
        THEN [ok |-> TRUE, group |-> SubSeq(s, j, RunEnd(s, j))]
      ELSE [ok |-> FALSE, group |-> <<>>]

\* String.prototype.match without /g: the leftmost position that matches
RECURSIVE MatchFrom(_, _)
MatchFrom(s, i) ==
  IF i > Len(s) THEN [ok |-> FALSE, group |-> <<>>]
  ELSE IF MatchAt(s, i).ok THEN MatchAt(s, i)
  ELSE MatchFrom(s, i + 1)

FileNameMatch(s) == MatchFrom(s, 1)

DefaultFileName == <<"p", "r", "o", "c", "e", "s", "s", "e", "d", "_",
                     "d", "a", "t", "a", ".", "x", "l", "s", "x">>

\* A response header: present = FALSE is a response without the header.
NoHeader == [present |-> FALSE, value |-> <<>>]
Header(v) == [present |-> TRUE, value |-> v]

\* ResolveFileName without the initial value of line 112
ResolveFileNameNoDefault(h) ==
  IF h.present /\ h.value # <<>> /\ FileNameMatch(h.value).ok
    THEN FileNameMatch(h.value).group
    ELSE <<>>

\* lines 111-117: the save name resolved from the content-disposition header
ResolveFileName(h) ==
  IF h.present /\ h.value # <<>>
    THEN IF FileNameMatch(h.value).ok THEN FileNameMatch(h.value).group
         ELSE DefaultFileName
    ELSE DefaultFileName


(* ------------------------------ inputs --------------------------------- *)
\* the file names <name> of the generated headers: r and r.x
Names == {<<"r">>, <<"r", ".", "x">>}

AttachmentPrefix == <<"a", "t", "t", "a", "c", "h", "m", "e", "n", "t", ";", " ">>

\* attachment; filename="<name>"
QuotedHeader(name) == Header(AttachmentPrefix \o KeyChars \o <<Quote>> \o name \o <<Quote>>)
\* attachment; filename=<name>
UnquotedHeader(name) == Header(AttachmentPrefix \o KeyChars \o name)

\* other headers a 2xx response can carry: none, the empty string, inline,
\* attachment; filename*=r (the extended parameter of RFC 5987),
\* attachment; filename=   attachment; filename="   attachment; FILENAME=r
OtherHeaders ==
  { NoHeader,
    Header(<<>>),
    Header(<<"i", "n", "l", "i", "n", "e">>),
    Header(AttachmentPrefix \o <<"f", "i", "l", "e", "n", "a", "m", "e", "*", "=", "r">>),
    Header(AttachmentPrefix \o KeyChars),
    Header(AttachmentPrefix \o KeyChars \o <<Quote>>),
    Header(AttachmentPrefix \o <<"F", "I", "L", "E", "N", "A", "M", "E", "=", "r">>) }

Headers == {QuotedHeader(n) : n \in Names} \cup {UnquotedHeader(n) : n \in Names}
             \cup OtherHeaders

\* lines 111-118 for each header of Headers: the download attribute set
FileNameFor == [h \in Headers |-> ResolveFileName(h)]

\* The statements of the success path, lines 104-122, in program order.
SuccessSteps == <<"Blob", "createObjectURL", "createElement", "match", "setAttribute",
                  "appendChild", "click", "remove", "revokeObjectURL">>
StepNo(step) == CHOOSE k \in 1..Len(SuccessSteps) : SuccessSteps[k] = step

\* Where the success path can raise: 0 is nowhere, k is at statement k.
ThrowPoints == {0, StepNo("Blob"), StepNo("createObjectURL"), StepNo("appendChild"),
                StepNo("click")}

\* statement `step` ran to completion in a run that raises at throwAt
Completed(step, throwAt) == throwAt = 0 \/ StepNo(step) < throwAt

\* What JSON.parse(await data.text()) can give for an error body.
\* kind "reject": text() rejects; "invalid": JSON.parse throws; "null": the
\* JSON value null; "scalar": a number, string, boolean or array; "object".
ErrMessages == {"", "Bad rows"}
ErrDetails == {<<>>, <<"row 3 invalid", "row 1 invalid">>}
Body(k, hm, m, hd, d) ==
  [kind |-> k, hasMessage |-> hm, message |-> m, hasDetails |-> hd, details |-> d]
Bodies ==
  {Body(k, FALSE, "", FALSE, <<>>) : k \in {"reject", "invalid", "null", "scalar", "object"}}
    \cup {Body("object", TRUE, m, FALSE, <<>>) : m \in ErrMessages}
    \cup {Body("object", FALSE, "", TRUE, d) : d \in ErrDetails}
    \cup {Body("object", TRUE, m, TRUE, d) : m \in ErrMessages, d \in ErrDetails}

\* How the POST can fail: no response at all, a response whose data is not a
\* Blob, or a response whose data is a Blob.
RejectKinds == {"network", "notBlob", "blob"}

(* ------------------------------ state ---------------------------------- *)
VARIABLES
  file,            \* useState(null): the candidate file
  isDragging,      \* useState(false)
  isUploading,     \* useState(false): the busy flag
  error,           \* useState({message: "", details: []})
  successMessage,  \* useState("")
  req,             \* the invocations of handleUpload suspended at an await
  last             \* history: the segment of validateAndSetFile or handleUpload
                   \* that ran last, what it was given and what it did
                   \* outside the component (object URL, download)

vars == <<file, isDragging, isUploading, error, successMessage, req, last>>

ReqIds == 1..MaxInFlight

\* pc: "idle" no invocation in this slot, "post" awaiting axios.post, "text"
\* awaiting err.response.data.text().  file: the multipart field excel_file.
IdleReq == [pc |-> "idle", file |-> Null]

\* no error body: the segment is not the end of a failed request
NoBody == Body("none", FALSE, "", FALSE, <<>>)

\* op: the segment.  input: the argument of validateAndSetFile.  url: the
\* object URL the segment left behind ("none", "live" or "revoked").  clicks:
\* how often it ran link.click().  header, fileName: the content-disposition
\* header it read and the download attribute it set.  body: how the request
\* failed: an element of Bodies, or kind "network" or "notBlob" when no body
\* was read.
Last(op, input, url, clicks, h, name, body) ==
  [op |-> op, input |-> input, url |-> url, clicks |-> clicks,
   header |-> h, fileName |-> name, body |-> body]

\* a segment that neither creates an object URL nor downloads nor fails
Plain(op) == Last(op, Null, "none", 0, NoHeader, <<>>, NoBody)

\* the end of a request that failed with `body`
Failed(body) == Last("fail", Null, "none", 0, NoHeader, <<>>, body)

Init ==
  /\ file = Null
  /\ isDragging = FALSE
  /\ isUploading = FALSE
  /\ error = NoError
  /\ successMessage = ""
  /\ req = [r \in ReqIds |-> IdleReq]
  /\ last = Plain("init")

InFlight == {r \in ReqIds : req[r].pc # "idle"}

(* --------------------------- validateAndSetFile ------------------------ *)
\* IsAccepted without the text/csv alternative
IsAcceptedNoCsv(selectedFile) ==
  /\ selectedFile # Null
  /\ selectedFile.type \in {XlsxType, XlsType}

\* IsAccepted without the test of the type
IsAcceptedAnyType(selectedFile) == selectedFile # Null

\* lines 38-42: the condition of the if
IsAccepted(selectedFile) ==
  /\ selectedFile # Null
  /\ selectedFile.type \in {XlsxType, XlsType, CsvType}

\* lines 46-49: the object passed to setError on the else branch
InvalidTypeError == ErrorObj(MsgInvalidType, FALSE, <<>>)

\* ValidateAndSetFile without the clearMessages() of line 36
ValidateAndSetFileKeepsMessages(selectedFile) ==
  /\ UNCHANGED successMessage
  /\ IF IsAccepted(selectedFile)
       THEN /\ UNCHANGED error
            /\ file' = selectedFile
       ELSE /\ error' = InvalidTypeError
            /\ file' = Null
  /\ last' = Last("validate", selectedFile, "none", 0, NoHeader, <<>>, NoBody)

\* lines 34-54.  clearMessages() runs first; a later setError in the same
\* handler overrides its setError.
ValidateAndSetFile(selectedFile) ==
  /\ successMessage' = ""
  /\ IF IsAccepted(selectedFile)
       THEN /\ error' = NoError
            /\ file' = selectedFile
       ELSE /\ error' = InvalidTypeError
            /\ file' = Null
  /\ last' = Last("validate", selectedFile, "none", 0, NoHeader, <<>>, NoBody)

\* HandleFileChange that also resets the busy flag
HandleFileChangeClearsBusy(selectedFile) ==
  /\ ValidateAndSetFile(selectedFile)
  /\ isUploading' = FALSE
  /\ UNCHANGED <<isDragging, req>>

\* lines 56-58: e.target.files[0] is undefined when the list is empty
HandleFileChange(selectedFile) ==
  /\ ValidateAndSetFile(selectedFile)
  /\ UNCHANGED <<isDragging, isUploading, req>>

\* lines 60-70, dropping at least one file
HandleDrop(selectedFile) ==
  /\ selectedFile # Null
  /\ isDragging' = FALSE
  /\ ValidateAndSetFile(selectedFile)
  /\ UNCHANGED <<isUploading, req>>

\* lines 60-70, dropping no file
HandleDropEmpty ==
  /\ isDragging' = FALSE
  /\ UNCHANGED <<file, isUploading, error, successMessage, req, last>>

\* lines 72-76
HandleDragOver ==
  /\ isDragging' = TRUE
  /\ UNCHANGED <<file, isUploading, error, successMessage, req, last>>

\* lines 78-82
HandleDragLeave ==
  /\ isDragging' = FALSE
  /\ UNCHANGED <<file, isUploading, error, successMessage, req, last>>

(* ------------------------------ handleUpload --------------------------- *)
\* line 86: the object passed to setError when there is no file
SelectFirstError == ErrorObj(MsgSelectFirst, FALSE, <<>>)

\* the request that is issued, carrying `file`
IssuedReq(f) == [pc |-> "post", file |-> f]

\* the slot a new invocation takes: the lowest free one
FreeSlot == CHOOSE r \in ReqIds : req[r].pc = "idle" /\ \A q \in 1..(r - 1) : req[q].pc # "idle"

\* HandleUploadNoFile without the return of line 87: control falls through to
\* lines 90-100
HandleUploadNoFileFallsThrough ==
  /\ file = Null
  /\ \E r \in ReqIds : req[r].pc = "idle"
  /\ error' = NoError
  /\ successMessage' = ""
  /\ isUploading' = TRUE
  /\ req' = [req EXCEPT ![FreeSlot] = IssuedReq(file)]
  /\ last' = Plain("submitNoFile")
  /\ UNCHANGED <<file, isDragging>>

\* lines 85-88: no candidate file
HandleUploadNoFile ==
  /\ file = Null
  /\ error' = SelectFirstError
  /\ last' = Plain("submitNoFile")
  /\ UNCHANGED <<file, isDragging, isUploading, successMessage, req>>

\* lines 90-100: up to the await of axios.post
HandleUploadStart ==
  /\ file # Null
  /\ \E r \in ReqIds : req[r].pc = "idle"
  /\ error' = NoError
  /\ successMessage' = ""
  /\ isUploading' = TRUE
  /\ req' = [req EXCEPT ![FreeSlot] = IssuedReq(file)]
  /\ last' = Plain("submit")
  /\ UNCHANGED <<file, isDragging>>

\* ButtonEnabled without the disabled attribute of line 183
ButtonNeverDisabled == file # Null

\* lines 179-189: the button exists only while `file` is set and is disabled
\* while isUploading
ButtonEnabled == file # Null /\ ~isUploading

ClickUpload ==
  /\ ButtonEnabled
  /\ HandleUploadStart

\* GenericError without the details property
GenericErrorNoDetails == ErrorObj(MsgUnexpected, FALSE, <<>>)

\* line 127: the initial errorData of the catch block
GenericError == ErrorObj(MsgUnexpected, TRUE, <<>>)

\* the object URL after a run of lines 107-122 that raises at throwAt
UrlAfter(throwAt) ==
  IF ~Completed("createObjectURL", throwAt) THEN "none"
  ELSE IF Completed("revokeObjectURL", throwAt) THEN "revoked"
  ELSE "live"

\* Finally without line 142
FinallyKeepsBusy == UNCHANGED isUploading

\* lines 141-143: the finally block
Finally == isUploading' = FALSE

\* PostResolved without the setFile(null) of line 125
PostResolvedKeepsFile(r, h) ==
  /\ req[r].pc = "post"
  /\ req' = [req EXCEPT ![r] = IdleReq]
  /\ last' = Last("succeed", Null, UrlAfter(0), 1, h, FileNameFor[h], NoBody)
  /\ successMessage' = MsgSuccess
  /\ Finally
  /\ UNCHANGED <<file, error, isDragging>>

\* lines 100-125: the POST resolved with a 2xx response carrying
\* content-disposition header h, and no statement raised
PostResolved(r, h) ==
  /\ req[r].pc = "post"
  /\ req' = [req EXCEPT ![r] = IdleReq]
  /\ last' = Last("succeed", Null, UrlAfter(0), 1, h, FileNameFor[h], NoBody)
  /\ successMessage' = MsgSuccess
  /\ file' = Null
  /\ Finally
  /\ UNCHANGED <<error, isDragging>>

\* PostResolvedThrow with the setFile(null) of line 125 run before the download
PostResolvedThrowClearsFile(r, throwAt) ==
  /\ req[r].pc = "post"
  /\ throwAt # 0
  /\ ~Completed("click", throwAt)
  /\ req' = [req EXCEPT ![r] = IdleReq]
  /\ last' = Last("throw", Null, UrlAfter(throwAt), 0, NoHeader, <<>>, NoBody)
  /\ error' = GenericError
  /\ file' = Null
  /\ isUploading' = FALSE
  /\ UNCHANGED <<successMessage, isDragging>>

\* lines 100-122, then 126-128 and 140-143: the POST resolved with a 2xx
\* response and statement throwAt of the success path raised.  The exception
\* carries no `response`, so errorData stays the generic one.  Every throw
\* point lies before the completion of link.click(), so nothing is downloaded.
PostResolvedThrow(r, throwAt) ==
  /\ req[r].pc = "post"
  /\ throwAt # 0
  /\ ~Completed("click", throwAt)
  /\ req' = [req EXCEPT ![r] = IdleReq]
  /\ last' = Last("throw", Null, UrlAfter(throwAt), 0, NoHeader, <<>>, NoBody)
  /\ error' = GenericError
  /\ Finally
  /\ UNCHANGED <<file, successMessage, isDragging>>

\* line 128: the condition under which the error body is read
HasBlobBody(kind) == kind = "blob"

\* lines 126-128: the POST rejected (non-2xx status or network failure)
PostRejected(r, kind) ==
  /\ req[r].pc = "post"
  /\ IF HasBlobBody(kind)
       THEN /\ req' = [req EXCEPT ![r].pc = "text"]
            /\ last' = Plain("readBody")
            /\ UNCHANGED <<error, isUploading>>
       ELSE /\ req' = [req EXCEPT ![r] = IdleReq]
            /\ error' = GenericError
            /\ Finally
            /\ last' = Failed(Body(kind, FALSE, "", FALSE, <<>>))
  /\ UNCHANGED <<file, isDragging, successMessage>>

\* ErrorData that takes the message and leaves details at the initial []
ErrorDataDropsDetails(body) ==
  CASE body.kind \in {"reject", "invalid", "null"} -> GenericError
    [] body.kind = "scalar" -> ErrorObj(MsgProcessing, TRUE, <<>>)
    [] OTHER ->
         ErrorObj(IF body.hasMessage /\ body.message # "" THEN body.message
                  ELSE MsgProcessing,
                  TRUE,
                  <<>>)

\* lines 129-139: errorData after the read of the body settled with `body`.
\* Reading a property of null raises inside the inner try.
ErrorData(body) ==
  CASE body.kind \in {"reject", "invalid", "null"} -> GenericError
    [] body.kind = "scalar" -> ErrorObj(MsgProcessing, TRUE, <<>>)
    [] OTHER ->
         ErrorObj(IF body.hasMessage /\ body.message # "" THEN body.message
                  ELSE MsgProcessing,
                  TRUE,
                  IF body.hasDetails THEN body.details ELSE <<>>)

\* TextSettled that also clears the candidate file
TextSettledClearsFile(r, body) ==
  /\ req[r].pc = "text"
  /\ req' = [req EXCEPT ![r] = IdleReq]
  /\ error' = ErrorData(body)
  /\ file' = Null
  /\ isUploading' = FALSE
  /\ last' = Failed(body)
  /\ UNCHANGED <<isDragging, successMessage>>

\* lines 130-143: the read of the error body settled
TextSettled(r, body) ==
  /\ req[r].pc = "text"
  /\ req' = [req EXCEPT ![r] = IdleReq]
  /\ error' = ErrorData(body)
  /\ Finally
  /\ last' = Failed(body)
  /\ UNCHANGED <<file, isDragging, successMessage>>

(* --------------------------- specifications ---------------------------- *)
\* handleUpload callable in any state
Next ==
  \/ \E f \in Inputs : HandleFileChange(f)
  \/ \E f \in Files : HandleDrop(f)
  \/ HandleDropEmpty
  \/ HandleDragOver
  \/ HandleDragLeave
  \/ HandleUploadNoFile
  \/ HandleUploadStart
  \/ \E r \in ReqIds, h \in Headers : PostResolved(r, h)
  \/ \E r \in ReqIds, t \in ThrowPoints \ {0} : PostResolvedThrow(r, t)
  \/ \E r \in ReqIds, k \in RejectKinds : PostRejected(r, k)
  \/ \E r \in ReqIds, b \in Bodies : TextSettled(r, b)

Spec == Init /\ [][Next]_vars

\* handleUpload reachable only through the rendered button
NextUI ==
  \/ \E f \in Inputs : HandleFileChange(f)
  \/ \E f \in Files : HandleDrop(f)
  \/ HandleDropEmpty
  \/ HandleDragOver
  \/ HandleDragLeave
  \/ ClickUpload
  \/ \E r \in ReqIds, h \in Headers : PostResolved(r, h)
  \/ \E r \in ReqIds, t \in ThrowPoints \ {0} : PostResolvedThrow(r, t)
  \/ \E r \in ReqIds, k \in RejectKinds : PostRejected(r, k)
  \/ \E r \in ReqIds, b \in Bodies : TextSettled(r, b)

SpecUI == Init /\ [][NextUI]_vars

\* The network and the body read settle: every pending await resumes.
PostSettles(r) ==
  \/ \E h \in Headers : PostResolved(r, h)
  \/ \E t \in ThrowPoints \ {0} : PostResolvedThrow(r, t)
  \/ \E k \in RejectKinds : PostRejected(r, k)

TextSettles(r) == \E b \in Bodies : TextSettled(r, b)

\* an invocation suspended at either await resumes
Settles(r) == PostSettles(r) \/ TextSettles(r)

Fairness == \A r \in ReqIds : WF_vars(Settles(r))

LiveSpec == Init /\ [][Next]_vars /\ Fairness

(* ------------------------------- claims -------------------------------- *)
AcceptedTypes == {XlsxType, XlsType, CsvType}

\* C1: the error message and the success message are never both non-empty,
\* also when a file is validated while a request is in flight and the
\* request settles afterwards.
C1_MessagesExclusive == ~(error.message # "" /\ successMessage # "")

\* C2: with handleUpload reachable only through the rendered button, at most
\* one request is in flight, and busy holds exactly while one submission has
\* started and not settled (the read of an error body included).
C2_SingleFlight ==
  /\ Cardinality(InFlight) <= 1
  /\ isUploading <=> Cardinality(InFlight) = 1

\* C2 witness: busy during the read of an error body
C2_Witness ==
  /\ isUploading
  /\ \E r \in ReqIds : req[r].pc = "text" /\ InFlight = {r}

\* C3: every submission that set busy eventually returns through the finally
\* block and sets busy to false, provided the request and the read of the
\* error body settle.
C3_BusyCleared ==
  \A r \in ReqIds :
    (req[r].pc # "idle" /\ isUploading)
      ~> (req[r].pc = "idle" /\ ~isUploading /\ last.op \in {"succeed", "throw", "fail"})

\* C3 witness: a submission that took the exception path has cleared busy
C3_Witness == last.op = "throw" /\ ~isUploading /\ InFlight = {}

\* C4: an accepted candidate file stays until that same file is submitted
\* with success or a new selection replaces it; the success of an earlier
\* submission does not clear a file accepted while it was in flight.
C4_CandidateKept ==
  [][(file # Null /\ file' # file) =>
       \/ last'.op = "validate"
       \/ /\ last'.op = "succeed"
          /\ \E r \in ReqIds : req[r].pc = "post" /\ req'[r].pc = "idle" /\ req[r].file = file
    ]_vars

\* C5: for a header attachment; filename="<name>" or attachment;
\* filename=<name> the resolved save name is exactly <name>.
C5_NameResolved ==
  \A n \in Names :
    (last.op = "succeed" /\ last.header \in {QuotedHeader(n), UnquotedHeader(n)})
      => last.fileName = n

\* C6: an object URL created by a submission is revoked before the
\* submission settles, on every outcome.
C6_UrlReleased == last.url # "live"

\* C7: handleUpload with no candidate file issues no request, sets the error
\* message "Please select a file first." and leaves busy and the candidate
\* file unchanged.
C7_NoFileSubmit ==
  [][(file = Null /\ last'.op \in {"submit", "submitNoFile"}) =>
       /\ req' = req
       /\ error'.message = MsgSelectFirst
       /\ isUploading' = isUploading
       /\ file' = file
    ]_vars

\* C7 witness: handleUpload ran without a candidate file
C7_Witness == last.op = "submitNoFile" /\ file = Null /\ error.message = MsgSelectFirst

\* C8: every validation call and every submission attempt, also one made
\* with no candidate file, clears the error and success message set before
\* it, so that afterwards only a message set by that call is present.
C8_MessagesCleared ==
  /\ last.op \in {"validate", "submit", "submitNoFile"} => successMessage = ""
  /\ last.op = "submit" => error.message = ""
  /\ last.op = "submitNoFile" => error.message = MsgSelectFirst
  /\ last.op = "validate" => error.message \in {"", MsgInvalidType}

\* C9: validate of a missing input or of a file whose type is not accepted
\* leaves the fixed error message with details an empty sequence (not an
\* absent value), an empty success message and no candidate file.
C9_Rejected ==
  (last.op = "validate" /\ (last.input = Null \/ last.input.type \notin AcceptedTypes))
    => /\ error = ErrorObj(MsgInvalidType, TRUE, <<>>)
       /\ successMessage = ""
       /\ file = Null

\* C10: validate of a file whose type is one of the three accepted types
\* leaves no error and no success message and makes that file the candidate.
C10_Accepted ==
  (last.op = "validate" /\ last.input # Null /\ last.input.type \in AcceptedTypes)
    => /\ file = last.input
       /\ error = NoError
       /\ successMessage = ""

\* C10 witness: a csv file was accepted
C10_Witness ==
  /\ last.op = "validate"
  /\ last.input # Null
  /\ last.input.type = CsvType
  /\ file = last.input

\* C11: when a submission settles with a 2xx response and no validation ran
\* while it was in flight, the state has the success message, an empty error,
\* no candidate file, busy false, and one download was triggered under the
\* resolved file name.  With handleUpload reachable only through the button,
\* last.op = "submit" before the step says that nothing but the submission
\* itself ran since the request was issued.
C11_SuccessState ==
  [][(last.op = "submit" /\ last'.op = "succeed") =>
       /\ successMessage' = MsgSuccess
       /\ error'.message = ""
       /\ file' = Null
       /\ ~isUploading'
       /\ last'.clicks = 1
       /\ last'.url = "revoked"
       /\ last'.fileName = ResolveFileName(last'.header)
    ]_vars

\* C11 witness: a submission succeeded and its download was triggered
C11_Witness ==
  /\ last.op = "succeed"
  /\ last.clicks = 1
  /\ successMessage = MsgSuccess
  /\ error.message = ""
  /\ file = Null
  /\ ~isUploading

\* a step in which an invocation returns from the read of an error body
TextReturns == \E r \in ReqIds : req[r].pc = "text" /\ req'[r].pc = "idle"

\* a step in which an invocation returns from the POST
PostReturns == \E r \in ReqIds : req[r].pc = "post" /\ req'[r].pc = "idle"

\* the error body carries both `message` and `details`
HasBoth(body) == body.kind = "object" /\ body.hasMessage /\ body.hasDetails

Parsed(body) == body.kind \in {"null", "scalar", "object"}

\* C13: for every error body that parses as JSON (null, a non-object, or an
\* object with `message` or `details` missing included) the error message is
\* the body's `message` when present and otherwise "An error occurred during
\* processing.", the details are the body's `details` when present and
\* otherwise empty; "An unexpected error occurred." only when parsing fails.
C13_ParsedBody ==
  [][(TextReturns /\ Parsed(last'.body)) =>
       error' = ErrorObj(IF last'.body.hasMessage THEN last'.body.message ELSE MsgProcessing,
                         TRUE,
                         IF last'.body.hasDetails THEN last'.body.details ELSE <<>>)
    ]_vars

\* the request failed without a body that parses: no response, a response
\* whose data is no Blob, a body that cannot be read, or text that is no JSON
Unparsed(body) == body.kind \in {"network", "notBlob", "reject", "invalid"}

\* C14: when a submission fails with a body that is not valid JSON, or with
\* a network failure that carries no response or no readable body, the error
\* becomes "An unexpected error occurred." with an empty detail list, and
\* handleUpload returns through its finally block (nothing escapes it).
C14_GenericError ==
  (last.op = "fail" /\ Unparsed(last.body))
    => /\ error = ErrorObj(MsgUnexpected, TRUE, <<>>)
       /\ ~isUploading

\* C14 witness: a body that is no JSON was read
C14_Witness ==
  /\ last.op = "fail"
  /\ last.body.kind = "invalid"
  /\ error.message = MsgUnexpected
  /\ ~isUploading

\* the header value contains filename= (in any case) followed by a character
HasFileNamePart(v) ==
  \E i \in 1..Len(v) : KeyMatchesAt(v, i) /\ i + Len(KeyChars) <= Len(v)

\* C15: for a 2xx response with no content-disposition header, or with one
\* that contains no parseable filename= part, the submission succeeds and
\* the save name is processed_data.xlsx.
C15_DefaultName ==
  (last.op = "succeed" /\ (~last.header.present \/ ~HasFileNamePart(last.header.value)))
    => /\ last.fileName = DefaultFileName
       /\ last.clicks = 1
       /\ successMessage = MsgSuccess

\* C15 witness: a response with only the extended parameter filename*= was
\* saved under the default name
C15_Witness ==
  /\ last.op = "succeed"
  /\ last.header.present
  /\ Len(last.header.value) > Len(AttachmentPrefix)
  /\ ~HasFileNamePart(last.header.value)
  /\ last.fileName = DefaultFileName

\* C16: the candidate file is empty or a file of one of the three accepted
\* types, and every request issued carries such a file under excel_file.
C16_OnlyAccepted ==
  /\ file = Null \/ file.type \in AcceptedTypes
  /\ \A r \in InFlight : req[r].file # Null /\ req[r].file.type \in AcceptedTypes

\* C16 witness: a request carrying a csv file is in flight
C16_Witness == \E r \in InFlight : req[r].pc = "post" /\ req[r].file.type = CsvType

\* C17: validate, accepting or rejecting, issues no request and leaves busy
\* and the requests in flight unchanged.
C17_ValidateFrame ==
  [][last'.op = "validate" => (req' = req /\ isUploading' = isUploading)]_vars

\* C17 witness: validate ran while a request was in flight
C17_Witness == last.op = "validate" /\ isUploading /\ InFlight # {}

\* C18: when a submission settles with a failure, the candidate file is left
\* unchanged; the failure changes only the error and busy.
C18_FailureFrame ==
  [][((PostReturns \/ TextReturns) /\ last'.op = "fail") =>
       /\ file' = file
       /\ successMessage' = successMessage
       /\ isDragging' = isDragging
    ]_vars

\* C18 witness: after a structured failure the candidate can be submitted again
C18_Witness == last.op = "fail" /\ last.body.kind = "object" /\ file # Null /\ ButtonEnabled

\* C19: a non-empty success message implies that no candidate file is held.
C19_SuccessNoCandidate == successMessage # "" => file = Null

\* C19 witness: a submission succeeded
C19_Witness == last.op = "succeed" /\ successMessage = MsgSuccess /\ file = Null

\* C20: if a 2xx response is received and a statement of the success path
\* raises before the success message is set, the submission ends with the
\* generic error with empty details, no success message, the candidate file
\* unchanged and busy false.
C20_SuccessPathRaises ==
  [][(PostReturns /\ last'.op = "throw") =>
       /\ error' = ErrorObj(MsgUnexpected, TRUE, <<>>)
       /\ successMessage' = ""
       /\ file' = file
       /\ ~isUploading'
    ]_vars

\* C20 witness: createObjectURL or a later statement raised
C20_Witness ==
  /\ last.op = "throw"
  /\ error = GenericError
  /\ successMessage = ""
  /\ file # Null
  /\ ~isUploading

====
